---------------------------- MODULE Spec2Model ----------------------------
(***************************************************************************)
(* Bookstore Integration API (src/app.py and src/services/*.py).           *)
(*                                                                         *)
(* State: the three in-memory stores (inventory, sales, deliveries), the   *)
(* seed inventory they started from, the response of the last completed    *)
(* request and, for the statement-level view of place_order, each          *)
(* worker's position and frame.                                            *)
(*                                                                         *)
(* Spec      : every request is handled to completion, one at a time.      *)
(* SpecSteps : POST /api/orders handlers of several workers interleave at  *)
(*             the granularity of the handler's statements.                *)
(***************************************************************************)
EXTENDS Integers, Sequences, FiniteSets

VARIABLES inventory, sales, deliveries, seed, response, pc, frame

vars == <<inventory, sales, deliveries, seed, response, pc, frame>>

(***************************************************************************)
(* Bounds of the model.                                                    *)
(***************************************************************************)
MaxStock == 1
\* Records (orders and deliveries together) created in one run.
MaxCreated == 2

(***************************************************************************)
(* JSON values as Python sees them after request.get_json(): None, str,    *)
(* int.  A dict is a function from the keys it holds to JSON values.       *)
(***************************************************************************)
None == [t |-> "null"]
JStr(s) == [t |-> "str", s |-> s]
JInt(n) == [t |-> "int", n |-> n]

\* Python truthiness of a JSON scalar: None, "" and 0 are falsy.
truthy(v) ==
    CASE v.t = "null" -> FALSE
      [] v.t = "str" -> v.s # ""
      [] v.t = "int" -> v.n # 0

\* dict.get(key): the value, or None when the key is absent.
get(data, key) == IF key \in DOMAIN data THEN data[key] ELSE None

\* `not data` for the parsed body: None or the empty dict.
no_body(data) == data = None \/ DOMAIN data = {}

\* A dict written with Absent for the keys it does not hold.
Absent == [t |-> "absent"]
dict(r) == [k \in {k \in DOMAIN r : r[k] # Absent} |-> r[k]]

(***************************************************************************)
(* Configuration and seed data.                                            *)
(***************************************************************************)
API_KEY == "secret"

BookIds == <<"b1", "b2">>

\* uuid.uuid4() draws from a 122-bit space; the model draws from a small
\* set and assumes nothing about freshness.
UUIDs == {"u1", "u2"}

\* Seed files: MaxStock copies split between the two books in every way.
SeedInventories ==
    { <<[id |-> BookIds[1], stock |-> n], [id |-> BookIds[2], stock |-> MaxStock - n]>>
        : n \in 0..MaxStock }

(***************************************************************************)
(* Inputs.                                                                 *)
(***************************************************************************)
Keys == {None, JStr("wrong"), JStr(API_KEY)}

Quantities == {JInt(n) : n \in -1..(MaxStock + 1)} \cup {JStr("2")}

OrderBodies ==
    {None} \cup
    { dict(r) : r \in [book_id  : {Absent, JStr("b1"), JStr("b2"), JStr("bx")},
                       quantity : {Absent} \cup Quantities,
                       customer : {Absent, JStr(""), JStr("alice")}] }

DeliveryBodies ==
    {None} \cup
    { dict(r) : r \in [order_id : {Absent, JStr(""), JStr("u1"), JStr("o9")},
                       address  : {Absent, JStr("12 Moi Ave")}] }

PathBookIds == {"b1", "b2", "bx"}

(***************************************************************************)
(* InventoryService                                                        *)
(***************************************************************************)
\* get_book: index of the first book whose id equals book_id, 0 for None.
get_book(inv, book_id) ==
    LET hits == { i \in 1..Len(inv) : JStr(inv[i].id) = book_id }
    IN IF hits = {} THEN 0
       ELSE CHOOSE i \in hits : \A j \in hits : i <= j

\* `book["stock"] >= qty` raises TypeError when qty is not a number; the
\* comparison is only evaluated when the book exists.
is_in_stock_raises(inv, book_id, qty) ==
    get_book(inv, book_id) # 0 /\ qty.t # "int"

\* Faulty variant: the book exists, its stock is not compared.
is_in_stock_exists_only(inv, book_id, qty) == get_book(inv, book_id) # 0

\* Faulty variant: the book has some stock, whatever the quantity asked.
is_in_stock_positive(inv, book_id, qty) ==
    LET b == get_book(inv, book_id)
    IN b # 0 /\ inv[b].stock > 0

is_in_stock(inv, book_id, qty) ==
    LET b == get_book(inv, book_id)
    IN b # 0 /\ inv[b].stock >= qty.n

\* Faulty variant: the decrement is dropped.
reduce_stock_skip(inv, book_id, qty) == inv

\* Faulty variant: one copy is taken whatever the quantity.
reduce_stock_by_one(inv, book_id, qty) ==
    LET b == get_book(inv, book_id)
    IN IF b # 0 THEN [inv EXCEPT ![b].stock = @ - 1] ELSE inv

reduce_stock(inv, book_id, qty) ==
    LET b == get_book(inv, book_id)
    IN IF b # 0 THEN [inv EXCEPT ![b].stock = @ - qty.n] ELSE inv

(***************************************************************************)
(* SalesService, DeliveryService                                           *)
(***************************************************************************)
Order(u, book_id, qty, customer) ==
    [order_id |-> u, book_id |-> book_id, quantity |-> qty,
     customer |-> customer, status |-> "PAID"]

\* Faulty variant: the order is built and returned but never appended.
create_order_lost(ledger, u, book_id, qty, customer) == ledger

create_order(ledger, u, book_id, qty, customer) ==
    Append(ledger, Order(u, book_id, qty, customer))

Delivery(u, data) ==
    [delivery_id |-> u, order_id |-> data["order_id"],
     address |-> data["address"], status |-> "READY_FOR_DISPATCH"]

\* Faulty variant: the ledger is replaced by the new record.
record_delivery_overwrites(ledger, u, data) == <<Delivery(u, data)>>

record_delivery(ledger, u, data) == Append(ledger, Delivery(u, data))

(***************************************************************************)
(* Responses                                                               *)
(***************************************************************************)
Resp(status, error) == [status |-> status, error |-> error]

Unauthorized == Resp(401, "Unauthorized - Invalid API Key")
BodyRequired == Resp(400, "JSON body is required")
OrderFieldsMissing == Resp(400, "Missing fields: book_id, quantity, customer")
DeliveryFieldsMissing == Resp(400, "Missing fields: order_id, address")
InsufficientStock == Resp(400, "Insufficient stock")
BookNotFound == Resp(404, "Book not found")
ServerError == Resp(500, "Internal Server Error")
Ok == Resp(200, "")
Created == Resp(201, "")

\* Faulty variant: `if key and key != API_KEY` lets a missing header through.
require_api_key_lenient(key) == key = None \/ key = JStr(API_KEY)

\* require_api_key: the wrapped handler runs iff the header equals API_KEY.
require_api_key(key) == key = JStr(API_KEY)

(***************************************************************************)
(* Initial state: the stores as loaded from the seed files.                *)
(***************************************************************************)
Workers == {"w1", "w2"}

NoFrame == [data |-> None, order |-> None]

Init ==
    /\ inventory \in SeedInventories
    /\ seed = inventory
    /\ sales = <<>>
    /\ deliveries = <<>>
    /\ response = Resp(0, "")
    /\ pc = [w \in Workers |-> "idle"]
    /\ frame = [w \in Workers |-> NoFrame]

(***************************************************************************)
(* Handlers as functions of the stores and the request: the response and   *)
(* the stores they leave.  u is the value uuid.uuid4() yields if drawn.    *)
(***************************************************************************)
\* The validation prefix of place_order (lines 145-157): the response it
\* returns early with, or Created when it falls through to line 159.
place_order_check(inv, data) ==
    IF no_body(data) THEN BodyRequired
    ELSE IF ~(truthy(get(data, "book_id")) /\ truthy(get(data, "quantity"))
                /\ truthy(get(data, "customer")))
         THEN OrderFieldsMissing
    ELSE IF is_in_stock_raises(inv, get(data, "book_id"), get(data, "quantity"))
         THEN ServerError
    ELSE IF ~is_in_stock(inv, get(data, "book_id"), get(data, "quantity"))
         THEN InsufficientStock
    ELSE Created

home_result(key) == Ok

get_all_books_result(key) ==
    IF require_api_key(key) THEN Ok ELSE Unauthorized

get_book_details_result(inv, key, book_id) ==
    IF ~require_api_key(key) THEN Unauthorized
    ELSE IF get_book(inv, JStr(book_id)) = 0 THEN BookNotFound
    ELSE Ok

place_order_result(inv, ledger, key, data, u) ==
    LET r == IF require_api_key(key) THEN place_order_check(inv, data)
             ELSE Unauthorized
    IN IF r # Created
       THEN [response |-> r, inventory |-> inv, sales |-> ledger]
       ELSE [response  |-> Created,
             sales     |-> create_order(ledger, u, get(data, "book_id"),
                                        get(data, "quantity"), get(data, "customer")),
             inventory |-> reduce_stock(inv, get(data, "book_id"),
                                        get(data, "quantity"))]

update_delivery_result(ledger, key, data, u) ==
    IF ~require_api_key(key)
    THEN [response |-> Unauthorized, deliveries |-> ledger]
    ELSE IF no_body(data)
    THEN [response |-> BodyRequired, deliveries |-> ledger]
    ELSE IF ~truthy(get(data, "order_id")) \/ ~truthy(get(data, "address"))
    THEN [response |-> DeliveryFieldsMissing, deliveries |-> ledger]
    ELSE [response |-> Created, deliveries |-> record_delivery(ledger, u, data)]

(***************************************************************************)
(* Requests, each handled to completion.  A run creates at most MaxCreated *)
(* records.                                                                *)
(***************************************************************************)
MayCreate == Len(sales) + Len(deliveries) < MaxCreated

home(key) ==
    /\ response' = home_result(key)
    /\ UNCHANGED <<inventory, sales, deliveries, seed, pc, frame>>

get_all_books(key) ==
    /\ response' = get_all_books_result(key)
    /\ UNCHANGED <<inventory, sales, deliveries, seed, pc, frame>>

get_book_details(key, book_id) ==
    /\ response' = get_book_details_result(inventory, key, book_id)
    /\ UNCHANGED <<inventory, sales, deliveries, seed, pc, frame>>

\* uuid.uuid4() is drawn only on the path that creates a record.
NoUuid == "-"
uuid4(r) == IF r = Created THEN UUIDs ELSE {NoUuid}

place_order(key, data) ==
    \E u \in uuid4(place_order_result(inventory, sales, key, data, NoUuid).response) :
        LET o == place_order_result(inventory, sales, key, data, u)
        IN /\ o.response = Created => MayCreate
           /\ response' = o.response
           /\ inventory' = o.inventory
           /\ sales' = o.sales
           /\ UNCHANGED <<deliveries, seed, pc, frame>>

update_delivery(key, data) ==
    \E u \in uuid4(update_delivery_result(deliveries, key, data, NoUuid).response) :
        LET o == update_delivery_result(deliveries, key, data, u)
        IN /\ o.response = Created => MayCreate
           /\ response' = o.response
           /\ deliveries' = o.deliveries
           /\ UNCHANGED <<inventory, sales, seed, pc, frame>>

Next ==
    \/ \E key \in Keys : home(key)
    \/ \E key \in Keys : get_all_books(key)
    \/ \E key \in Keys, book_id \in PathBookIds : get_book_details(key, book_id)
    \/ \E key \in Keys, data \in OrderBodies : place_order(key, data)
    \/ \E key \in Keys, data \in DeliveryBodies : update_delivery(key, data)

Spec == Init /\ [][Next]_vars

(***************************************************************************)
(* place_order statement by statement (lines 145-162), one frame per       *)
(* worker, for requests the wrapper has admitted.  order_begin is the      *)
(* validation prefix up to the single read of the inventory in             *)
(* is_in_stock; order_create is line 159; order_reduce is lines 160-162.   *)
(***************************************************************************)
InFlight == Cardinality({w \in Workers : pc[w] = "checked"})

order_begin(w, data) ==
    /\ pc[w] = "idle"
    /\ LET r == place_order_check(inventory, data)
       IN IF r # Created
          THEN /\ response' = r
               /\ UNCHANGED <<pc, frame>>
          ELSE /\ Len(sales) + Len(deliveries) + InFlight < MaxCreated
               /\ pc' = [pc EXCEPT ![w] = "checked"]
               /\ frame' = [frame EXCEPT ![w] = [data |-> data, order |-> None]]
               /\ UNCHANGED response
    /\ UNCHANGED <<inventory, sales, deliveries, seed>>

order_create(w) ==
    /\ pc[w] = "checked"
    /\ \E u \in UUIDs :
         LET data == frame[w].data
         IN /\ sales' = create_order(sales, u, get(data, "book_id"),
                                     get(data, "quantity"), get(data, "customer"))
            /\ frame' = [frame EXCEPT ![w].order =
                            Order(u, get(data, "book_id"), get(data, "quantity"),
                                  get(data, "customer"))]
    /\ pc' = [pc EXCEPT ![w] = "created"]
    /\ UNCHANGED <<inventory, deliveries, seed, response>>

order_reduce(w) ==
    /\ pc[w] = "created"
    /\ inventory' = reduce_stock(inventory, get(frame[w].data, "book_id"),
                                 get(frame[w].data, "quantity"))
    /\ response' = Created
    /\ pc' = [pc EXCEPT ![w] = "idle"]
    /\ frame' = [frame EXCEPT ![w] = NoFrame]
    /\ UNCHANGED <<sales, deliveries, seed>>

NextSteps ==
    \/ \E w \in Workers, data \in OrderBodies : order_begin(w, data)
    \/ \E w \in Workers : order_create(w)
    \/ \E w \in Workers : order_reduce(w)

SpecSteps == Init /\ [][NextSteps]_vars

(***************************************************************************)
(* Vocabulary of the properties.                                           *)
(***************************************************************************)
ValidKey == JStr(API_KEY)

OrderFields == {"book_id", "quantity", "customer"}

\* The bodies that hold all three keys of an order.
FullOrderBodies == { data \in OrderBodies : data # None /\ OrderFields \subseteq DOMAIN data }

\* The outcome o of a request left the three stores as they are.
stores_kept(o) == o.inventory = inventory /\ o.sales = sales

RECURSIVE ordered(_, _)
\* Sum of the quantities of the Orders of the ledger for book id.
ordered(ledger, id) ==
    IF ledger = <<>> THEN 0
    ELSE (IF ledger[1].book_id = JStr(id) THEN ledger[1].quantity.n ELSE 0)
         + ordered(Tail(ledger), id)

\* Outcome o answers 201, holds the ledger plus exactly one PAID Order with
\* the body's fields, and took exactly the quantity from book i alone.
order_placed(o, data, i) ==
    /\ o.response.status = 201
    /\ Len(o.sales) = Len(sales) + 1
    /\ SubSeq(o.sales, 1, Len(sales)) = sales
    /\ LET order == o.sales[Len(o.sales)]
       IN /\ order.book_id = data.book_id
          /\ order.quantity = data.quantity
          /\ order.customer = data.customer
          /\ order.status = "PAID"
    /\ Len(o.inventory) = Len(inventory)
    /\ \A j \in 1..Len(inventory) :
         /\ o.inventory[j].id = inventory[j].id
         /\ o.inventory[j].stock =
              IF j = i THEN inventory[j].stock - data.quantity.n
              ELSE inventory[j].stock

(***************************************************************************)
(* C1, as stated: in every reachable state, an authorized order for an     *)
(* existing book with all three fields present and quantity <= stock       *)
(* answers 201, appends exactly one PAID Order with the request's fields   *)
(* and reduces that book's stock by exactly quantity.  Fails for quantity  *)
(* 0, which is at most any stock.                                          *)
(***************************************************************************)
C1_PlaceOrderAsStated ==
    \A i \in 1..Len(inventory) : \A data \in FullOrderBodies : \A u \in UUIDs :
        ( /\ data.book_id = JStr(inventory[i].id)
          /\ data.quantity.t = "int"
          /\ data.quantity.n <= inventory[i].stock )
        => order_placed(place_order_result(inventory, sales, ValidKey, data, u), data, i)

(***************************************************************************)
(* C1, amended: the same for every such request whose quantity is a        *)
(* non-zero integer and whose customer is non-empty (stock afterwards =    *)
(* stock before - quantity; ordering the entire stock leaves 0).           *)
(***************************************************************************)
C1_PlaceOrder ==
    \A i \in 1..Len(inventory) : \A data \in FullOrderBodies : \A u \in UUIDs :
        ( /\ data.book_id = JStr(inventory[i].id)
          /\ data.quantity.t = "int"
          /\ data.quantity.n # 0
          /\ data.quantity.n <= inventory[i].stock
          /\ truthy(data.customer) )
        => order_placed(place_order_result(inventory, sales, ValidKey, data, u), data, i)

\* An order for a book's entire seed stock was accepted and left it at 0.
C1_Witness ==
    /\ response = Created
    /\ Len(sales) = 1
    /\ \E i \in 1..Len(inventory) :
         /\ seed[i].stock > 0
         /\ sales[1].book_id = JStr(inventory[i].id)
         /\ sales[1].quantity = JInt(seed[i].stock)
         /\ sales[1].status = "PAID"
         /\ inventory[i].stock = 0

(***************************************************************************)
(* C2, as stated: in every reachable state, an authorized order with all   *)
(* three fields present whose book_id is unknown or whose quantity exceeds *)
(* the stock answers 400 "Insufficient stock" and changes no store.  Fails *)
(* for an unknown book with quantity 0: 400 "Missing fields".              *)
(***************************************************************************)
rejected_as_insufficient(o) == o.response = InsufficientStock /\ stores_kept(o)

stock_too_low(data) ==
    /\ data.quantity.t = "int"
    /\ \E i \in 1..Len(inventory) :
         data.book_id = JStr(inventory[i].id) /\ data.quantity.n > inventory[i].stock

book_unknown(data) ==
    \A i \in 1..Len(inventory) : data.book_id # JStr(inventory[i].id)

C2_InsufficientAsStated ==
    \A data \in FullOrderBodies : \A u \in UUIDs :
        (book_unknown(data) \/ stock_too_low(data))
        => rejected_as_insufficient(place_order_result(inventory, sales, ValidKey, data, u))

(***************************************************************************)
(* C2, amended: the same for every such request whose three fields are     *)
(* truthy (non-empty strings, quantity not 0).                             *)
(***************************************************************************)
C2_Insufficient ==
    \A data \in FullOrderBodies : \A u \in UUIDs :
        ( /\ \A k \in OrderFields : truthy(data[k])
          /\ (book_unknown(data) \/ stock_too_low(data)) )
        => rejected_as_insufficient(place_order_result(inventory, sales, ValidKey, data, u))

\* After a book's entire stock was ordered, a further order was refused.
C2_Witness ==
    /\ response = InsufficientStock
    /\ Len(sales) = 1
    /\ \E i \in 1..Len(inventory) :
         /\ sales[1].book_id = JStr(inventory[i].id)
         /\ seed[i].stock > 0
         /\ inventory[i].stock = 0

(***************************************************************************)
(* C3: with requests handled one at a time, no book's stock is ever        *)
(* negative.                                                               *)
(***************************************************************************)
C3_StockNeverNegative ==
    \A i \in 1..Len(inventory) : inventory[i].stock >= 0

\* The ledger is full and some seeded book has been sold out.
C3_Witness ==
    /\ Len(sales) = MaxCreated
    /\ \E i \in 1..Len(inventory) : seed[i].stock > 0 /\ inventory[i].stock = 0

(***************************************************************************)
(* C4: a protected route called with an absent or wrong x-api-key answers  *)
(* 401 and changes no store, whatever the body; GET / answers 200 without  *)
(* a key.                                                                  *)
(***************************************************************************)
C4_EveryRequestRefused ==
    \A key \in Keys \ {ValidKey} :
        /\ get_all_books_result(key) = Unauthorized
        /\ \A book_id \in PathBookIds :
             get_book_details_result(inventory, key, book_id) = Unauthorized
        /\ \A data \in OrderBodies : \A u \in UUIDs :
             LET o == place_order_result(inventory, sales, key, data, u)
             IN o.response = Unauthorized /\ stores_kept(o)
        /\ \A data \in DeliveryBodies : \A u \in UUIDs :
             LET o == update_delivery_result(deliveries, key, data, u)
             IN o.response = Unauthorized /\ o.deliveries = deliveries
        /\ home_result(key).status = 200

C4_Unauthorized ==
    /\ []C4_EveryRequestRefused
    /\ [][response' = Unauthorized
            => inventory' = inventory /\ sales' = sales /\ deliveries' = deliveries]_vars

\* A request was refused while both ledgers held records.
C4_Witness ==
    response = Unauthorized /\ Len(sales) > 0 /\ Len(deliveries) > 0

(***************************************************************************)
(* C5: every Order that order placement adds to the sales ledger has an    *)
(* integer quantity > 0.  Violated: a negative quantity passes both the    *)
(* truthiness check and the stock check.                                   *)
(***************************************************************************)
C5_PositiveQuantity ==
    \A k \in 1..Len(sales) :
        sales[k].quantity.t = "int" /\ sales[k].quantity.n > 0

(***************************************************************************)
(* C7: an authorized delivery update with truthy order_id and address      *)
(* answers 201 and appends exactly one READY_FOR_DISPATCH Delivery with    *)
(* that order_id and address, whether or not an Order has that id; the     *)
(* inventory, the sales ledger and the earlier Deliveries stay as they are.*)
(***************************************************************************)
C7_EveryUpdateRecorded ==
    \A data \in DeliveryBodies : \A u \in UUIDs :
        ( /\ data # None
          /\ {"order_id", "address"} \subseteq DOMAIN data
          /\ truthy(data.order_id) /\ truthy(data.address) )
        => LET o == update_delivery_result(deliveries, ValidKey, data, u)
           IN /\ o.response.status = 201
              /\ Len(o.deliveries) = Len(deliveries) + 1
              /\ SubSeq(o.deliveries, 1, Len(deliveries)) = deliveries
              /\ LET d == o.deliveries[Len(o.deliveries)]
                 IN /\ d.order_id = data.order_id
                    /\ d.address = data.address
                    /\ d.status = "READY_FOR_DISPATCH"

C7_DeliveryRecorded ==
    /\ []C7_EveryUpdateRecorded
    /\ [][deliveries' # deliveries
            => /\ inventory' = inventory /\ sales' = sales
               /\ response' = Created
               /\ Len(deliveries') = Len(deliveries) + 1
               /\ SubSeq(deliveries', 1, Len(deliveries)) = deliveries]_vars

\* A Delivery was recorded for an order_id that no Order of the ledger has.
C7_Witness ==
    /\ response = Created
    /\ Len(sales) = 1
    /\ Len(deliveries) = 1
    /\ deliveries[1].order_id # JStr(sales[1].order_id)
    /\ deliveries[1].status = "READY_FOR_DISPATCH"

(***************************************************************************)
(* C10: with requests handled one at a time, every book's stock plus the   *)
(* quantities of all Orders created for it equals its seed stock.          *)
(***************************************************************************)
C10_StockConserved ==
    \A i \in 1..Len(inventory) :
        inventory[i].stock + ordered(sales, inventory[i].id) = seed[i].stock

\* Two Orders were created for the same book.
C10_Witness ==
    /\ Len(sales) = 2
    /\ sales[1].book_id = sales[2].book_id
    /\ \E i \in 1..Len(inventory) :
         sales[1].book_id = JStr(inventory[i].id) /\ inventory[i].stock # seed[i].stock

(***************************************************************************)
(* C8: in the statement-level handler a book's stock changes only in the   *)
(* decrement step of a worker whose Order is already in the sales ledger,  *)
(* and by that Order's quantity; the ledger is not touched in that step.   *)
(***************************************************************************)
C8_CreateBeforeReduce ==
    [][\A i \in 1..Len(inventory) :
         inventory'[i].stock # inventory[i].stock
         => \E w \in Workers :
              /\ pc[w] = "created" /\ pc'[w] = "idle"
              /\ \E k \in 1..Len(sales) : sales[k] = frame[w].order
              /\ frame[w].order.book_id = JStr(inventory[i].id)
              /\ inventory'[i].stock = inventory[i].stock - frame[w].order.quantity.n
              /\ sales' = sales]_vars

\* Between create and decrement: the Order exists, the stock is untouched.
C8_Witness ==
    \E w \in Workers :
        /\ pc[w] = "created"
        /\ Len(sales) = 1
        /\ sales[1] = frame[w].order
        /\ sales[1].quantity.n > 0
        /\ inventory = seed

(***************************************************************************)
(* C9: interleaved handlers can overdraw a book: a negative stock is       *)
(* reachable, and it takes two Orders of positive quantity for that book   *)
(* (a single handler never overdraws).                                     *)
(***************************************************************************)
C9_OverdrawTakesTwoOrders ==
    \A i \in 1..Len(inventory) :
        inventory[i].stock < 0
        => \E k, l \in 1..Len(sales) :
             /\ k # l
             /\ sales[k].book_id = JStr(inventory[i].id) /\ sales[k].quantity.n > 0
             /\ sales[l].book_id = JStr(inventory[i].id) /\ sales[l].quantity.n > 0

\* Two orders for a book's entire stock both completed: stock = -seed.
C9_Witness ==
    /\ \A w \in Workers : pc[w] = "idle"
    /\ Len(sales) = 2
    /\ \E i \in 1..Len(inventory) :
         /\ seed[i].stock > 0
         /\ \A k \in 1..2 : /\ sales[k].book_id = JStr(inventory[i].id)
                            /\ sales[k].quantity = JInt(seed[i].stock)
         /\ inventory[i].stock = 0 - seed[i].stock

=============================================================================
